---- MODULE Spec2Model ----
(***************************************************************************)
(* Focus and event state machine of the sweeten Button widget              *)
(* (src/src/widget/button.rs) and the focus operations that traverse a     *)
(* tree of such buttons (src/src/widget/operation.rs).                     *)
(*                                                                         *)
(* A tree is a column of buttons; the content of a button is either a      *)
(* text label or another button.  Buttons are numbered 1..n in the order   *)
(* in which they are declared.                                             *)
(***************************************************************************)
EXTENDS Integers, Sequences, FiniteSets, Bags

MaxButtons == 2      \* largest number of buttons in a tree
MaxNet == 1          \* largest |#focus - #blur| messages that is counted
MaxTasks == 2        \* largest number of tasks the runtime holds

VARIABLES
    content,     \* content[w]: the button that is w's content, 0 for a label
    on_press,    \* on_press[w]: "None", or "Some" activation payload
    on_focus,    \* on_focus[w]: button w was built with on_focus(..)
    on_blur,     \* on_blur[w]: button w was built with on_blur(..)
    state,       \* state[w]: the State of button w in the widget tree
    net,         \* net[w]: focus messages minus blur messages published by w,
                 \* or Lost when the difference has left -MaxNet..MaxNet
    tasks,       \* the bag of focus_next(f) and focus_previous(f) tasks that
                 \* update has returned and the runtime holds
    finished     \* the task that ran its last step in the last step of the
                 \* runtime, with the calls of f it made: a set of 0 or 1

vars ==
    <<content, on_press, on_focus, on_blur, state, net, tasks, finished>>

Ids == 1..Len(content)

Status == {"Active", "Pressed", "Disabled"}

OnPress == {"None", "Some"}

Events == {"Press", "Release", "FingerLost", "KeyActivate", "KeyOther",
           "Other"}

\* State::default()
DefaultState == [is_focused |-> FALSE, was_focused |-> FALSE,
                 status |-> "Active"]

\* Focusable for State
is_focused_stale(s) == s.was_focused

is_focused(s) == s.is_focused

\* a focus() that also records the focus as published
focus_recorded(s) ==
    IF s.status # "Disabled"
    THEN [s EXCEPT !.is_focused = TRUE, !.was_focused = TRUE]
    ELSE s

\* a focus() that switches the flag
focus_toggles(s) ==
    IF s.status # "Disabled" THEN [s EXCEPT !.is_focused = ~s.is_focused]
    ELSE s

\* a focus() that does not look at the status
focus_always(s) == [s EXCEPT !.is_focused = TRUE]

focus(s) == IF s.status # "Disabled" THEN [s EXCEPT !.is_focused = TRUE]
            ELSE s

unfocus_forgets(s) == [s EXCEPT !.is_focused = FALSE, !.was_focused = FALSE]

unfocus(s) == [s EXCEPT !.is_focused = FALSE]

(***************************************************************************)
(* The shape of the tree.                                                  *)
(***************************************************************************)
\* the buttons that are not the content of another button, in declared order
IsContent(w) == \E p \in Ids : content[p] = w

RECURSIVE RootsFrom(_)
RootsFrom(w) ==
    IF w > Len(content) THEN <<>>
    ELSE IF IsContent(w) THEN RootsFrom(w + 1)
    ELSE <<w>> \o RootsFrom(w + 1)

Roots == RootsFrom(1)

\* the buttons below w, w included
RECURSIVE Subtree(_)
Subtree(w) == IF w = 0 THEN {} ELSE {w} \cup Subtree(content[w])

\* cursor.is_over(layout.bounds()): the cursor is at the innermost button
\* cur (0: over no button); a button's bounds contain its content's bounds
is_over(w, cur) == cur # 0 /\ cur \in Subtree(w)

(***************************************************************************)
(* Button::on_event.  A handler returns the new State of the button, the   *)
(* messages it published, the event::Status it returns and the buttons     *)
(* whose OnPress::get it called.                                           *)
(***************************************************************************)
Msg(w, m) == [id |-> w, msg |-> m]

Out(s, p, r, i) == [s |-> s, published |-> p, status |-> r, invoked |-> i]

\* OnPress::get: the message is produced (a Direct message is cloned, the
\* closure of on_press_with is called); the buttons whose get has run
get(w) == {w}

\* a reconciliation that does not record what it has published
reconcile_repeats(w, s) ==
    IF s.is_focused # s.was_focused
    THEN Out(s,
             IF s.is_focused
             THEN (IF on_focus[w] THEN <<Msg(w, "focus")>> ELSE <<>>)
             ELSE (IF on_blur[w] THEN <<Msg(w, "blur")>> ELSE <<>>),
             "Ignored", {})
    ELSE Out(s, <<>>, "Ignored", {})

\* a reconciliation that publishes nothing
reconcile_silent(w, s) ==
    Out([s EXCEPT !.was_focused = s.is_focused], <<>>, "Ignored", {})

\* "Detect focus changes from operations"
reconcile(w, s) ==
    IF s.is_focused # s.was_focused
    THEN Out([s EXCEPT !.was_focused = s.is_focused],
             IF s.is_focused
             THEN (IF on_focus[w] THEN <<Msg(w, "focus")>> ELSE <<>>)
             ELSE (IF on_blur[w] THEN <<Msg(w, "blur")>> ELSE <<>>),
             "Ignored", {})
    ELSE Out(s, <<>>, "Ignored", {})

\* a press that publishes on_focus whether or not the button is focused
button_pressed_refocus(w, s, cur) ==
    IF on_press[w] # "None" /\ is_over(w, cur)
    THEN Out([s EXCEPT !.status = "Pressed", !.is_focused = TRUE,
                       !.was_focused = TRUE],
             IF on_focus[w] THEN <<Msg(w, "focus")>> ELSE <<>>, "Captured", {})
    ELSE Out(s, <<>>, "Ignored", {})

\* a press that gives the focus only to a button that has on_focus
button_pressed_if_on_focus(w, s, cur) ==
    IF on_press[w] # "None"
    THEN IF is_over(w, cur)
         THEN Out(IF on_focus[w]
                  THEN [s EXCEPT !.status = "Pressed", !.is_focused = TRUE,
                                 !.was_focused = TRUE]
                  ELSE [s EXCEPT !.status = "Pressed"],
                  IF on_focus[w] /\ ~is_focused(s) THEN <<Msg(w, "focus")>>
                  ELSE <<>>,
                  "Captured", {})
         ELSE Out([s EXCEPT !.is_focused = FALSE, !.was_focused = FALSE],
                  IF on_blur[w] /\ is_focused(s) THEN <<Msg(w, "blur")>>
                  ELSE <<>>,
                  "Ignored", {})
    ELSE Out(s, <<>>, "Ignored", {})

\* a press that takes the focus away without a blur message
button_pressed_quiet(w, s, cur) ==
    IF on_press[w] # "None"
    THEN IF is_over(w, cur)
         THEN Out([s EXCEPT !.status = "Pressed", !.is_focused = TRUE,
                            !.was_focused = TRUE],
                  IF on_focus[w] /\ ~is_focused(s) THEN <<Msg(w, "focus")>>
                  ELSE <<>>,
                  "Captured", {})
         ELSE Out([s EXCEPT !.is_focused = FALSE, !.was_focused = FALSE],
                  <<>>, "Ignored", {})
    ELSE Out(s, <<>>, "Ignored", {})

\* a press that leaves was_focused as it is
button_pressed_unrecorded(w, s, cur) ==
    IF on_press[w] # "None"
    THEN IF is_over(w, cur)
         THEN Out([s EXCEPT !.status = "Pressed", !.is_focused = TRUE],
                  IF on_focus[w] /\ ~is_focused(s) THEN <<Msg(w, "focus")>>
                  ELSE <<>>,
                  "Captured", {})
         ELSE Out([s EXCEPT !.is_focused = FALSE],
                  IF on_blur[w] /\ is_focused(s) THEN <<Msg(w, "blur")>>
                  ELSE <<>>,
                  "Ignored", {})
    ELSE Out(s, <<>>, "Ignored", {})

\* Mouse ButtonPressed(Left) | Touch FingerPressed
button_pressed(w, s, cur) ==
    IF on_press[w] # "None"
    THEN IF is_over(w, cur)
         THEN Out([s EXCEPT !.status = "Pressed", !.is_focused = TRUE,
                            !.was_focused = TRUE],
                  IF on_focus[w] /\ ~is_focused(s) THEN <<Msg(w, "focus")>>
                  ELSE <<>>,
                  "Captured", {})
         ELSE Out([s EXCEPT !.is_focused = FALSE, !.was_focused = FALSE],
                  IF on_blur[w] /\ is_focused(s) THEN <<Msg(w, "blur")>>
                  ELSE <<>>,
                  "Ignored", {})
    ELSE Out(s, <<>>, "Ignored", {})

\* a release that publishes wherever the cursor is
button_released_anywhere(w, s, cur) ==
    IF on_press[w] # "None" /\ s.status = "Pressed"
    THEN Out([s EXCEPT !.status = "Active"], <<Msg(w, "press")>>,
             "Captured", get(w))
    ELSE Out(s, <<>>, "Ignored", get(w))

\* a release that leaves the status Pressed
button_released_keeps(w, s, cur) ==
    IF on_press[w] # "None" /\ s.status = "Pressed"
    THEN Out(s, IF is_over(w, cur) THEN <<Msg(w, "press")>> ELSE <<>>,
             "Captured", get(w))
    ELSE Out(s, <<>>, "Ignored", {})

\* Mouse ButtonReleased(Left) | Touch FingerLifted: the message is taken
\* from on_press (self.on_press.as_ref().map(OnPress::get)) before the
\* status is looked at
button_released(w, s, cur) ==
    IF on_press[w] # "None"
    THEN IF s.status = "Pressed"
         THEN Out([s EXCEPT !.status = "Active"],
                  IF is_over(w, cur) THEN <<Msg(w, "press")>> ELSE <<>>,
                  "Captured", get(w))
         ELSE Out(s, <<>>, "Ignored", get(w))
    ELSE Out(s, <<>>, "Ignored", {})

\* a lost finger that also takes the focus away
finger_lost_unfocuses(w, s) ==
    Out([s EXCEPT !.status = "Active", !.is_focused = FALSE], <<>>,
        "Ignored", {})

\* Touch FingerLost
finger_lost(w, s) == Out([s EXCEPT !.status = "Active"], <<>>, "Ignored", {})

\* a key handler that takes every key for Enter or Space
key_pressed_any_key(w, s, activate) ==
    IF on_press[w] # "None" /\ is_focused(s)
    THEN Out([s EXCEPT !.status = "Pressed"], <<Msg(w, "press")>>,
             "Captured", get(w))
    ELSE Out(s, <<>>, "Ignored", {})

key_pressed_unguarded(w, s, activate) ==
    IF is_focused(s) /\ activate
    THEN Out([s EXCEPT !.status = "Pressed"], <<Msg(w, "press")>>,
             "Captured", get(w))
    ELSE Out(s, <<>>, "Ignored", {})

\* Keyboard KeyPressed; activate: the key is Enter or Space
key_pressed(w, s, activate) ==
    IF on_press[w] # "None" /\ is_focused(s) /\ activate
    THEN Out([s EXCEPT !.status = "Pressed"], <<Msg(w, "press")>>,
             "Captured", get(w))
    ELSE Out(s, <<>>, "Ignored", {})

\* a match whose last arm resets the status
handle_resets(w, s, ev, cur) ==
    CASE ev = "Press" -> button_pressed(w, s, cur)
      [] ev = "Release" -> button_released(w, s, cur)
      [] ev = "FingerLost" -> finger_lost(w, s)
      [] ev = "KeyActivate" -> key_pressed(w, s, TRUE)
      [] ev = "KeyOther" -> key_pressed(w, s, FALSE)
      [] OTHER -> Out([s EXCEPT !.status = "Active"], <<>>, "Ignored", {})

\* the match on the event
handle(w, s, ev, cur) ==
    CASE ev = "Press" -> button_pressed(w, s, cur)
      [] ev = "Release" -> button_released(w, s, cur)
      [] ev = "FingerLost" -> finger_lost(w, s)
      [] ev = "KeyActivate" -> key_pressed(w, s, TRUE)
      [] ev = "KeyOther" -> key_pressed(w, s, FALSE)
      [] OTHER -> Out(s, <<>>, "Ignored", {})

\* a status handed to the style of the button; is_hovered is meaningful for
\* Focused only
Rendered(name, is_hovered) == [name |-> name, is_hovered |-> is_hovered]

draw_stored_status(w, t, cur) ==
    LET is_mouse_over == is_over(w, cur)
    IN  [tree |-> t,
         status |->
            IF t[w].status = "Disabled" THEN Rendered("Disabled", FALSE)
            ELSE IF is_focused(t[w]) THEN Rendered("Focused", is_mouse_over)
            ELSE IF is_mouse_over
                 THEN IF t[w].status = "Pressed"
                      THEN Rendered("Pressed", FALSE)
                      ELSE Rendered("Hovered", FALSE)
                 ELSE Rendered("Active", FALSE)]

\* Button::draw of button w with the cursor at cur: the tree, which draw
\* only reads, and the status that is drawn
draw(w, t, cur) ==
    LET is_mouse_over == is_over(w, cur)
    IN  [tree |-> t,
         status |->
            IF on_press[w] = "None" THEN Rendered("Disabled", FALSE)
            ELSE IF is_focused(t[w]) THEN Rendered("Focused", is_mouse_over)
            ELSE IF is_mouse_over
                 THEN IF t[w].status = "Pressed"
                      THEN Rendered("Pressed", FALSE)
                      ELSE Rendered("Hovered", FALSE)
                 ELSE Rendered("Active", FALSE)]

\* the result of a pass over a part of the tree: the states of all buttons,
\* the messages published, what each button returned, the closures called
Pass(t, p, r, i, st) ==
    [tree |-> t, published |-> p, returned |-> r, invoked |-> i,
     status |-> st]

NoPass(t) == Pass(t, <<>>, [w \in DOMAIN t |-> "None"], {}, "Ignored")

\* a button that does not look at what its content returned
content_captured_never(inner) == FALSE

\* event::Status::Captured returned by the content
content_captured(inner) == inner.status = "Captured"

\* Button::on_event of button w on the tree state of pass a
RECURSIVE on_event(_, _, _, _)
on_event(w, a, ev, cur) ==
    LET inner == IF content[w] = 0 THEN [a EXCEPT !.status = "Ignored"]
                 ELSE on_event(content[w], a, ev, cur)
    IN  IF content_captured(inner)
        THEN [inner EXCEPT !.returned[w] = "Captured"]
        ELSE LET rec == reconcile(w, inner.tree[w])
                 own == handle(w, rec.s, ev, cur)
             IN  Pass([inner.tree EXCEPT ![w] = own.s],
                      inner.published \o rec.published \o own.published,
                      [inner.returned EXCEPT ![w] = own.status],
                      inner.invoked \cup own.invoked,
                      own.status)

\* event::Status::merge
merge(x, y) == IF x = "Captured" \/ y = "Captured" THEN "Captured"
               ELSE "Ignored"

\* Column::on_event: every child sees the event, the results are merged
RECURSIVE column_on_event(_, _, _, _)
column_on_event(ws, a, ev, cur) ==
    IF ws = <<>> THEN a
    ELSE LET b == on_event(Head(ws), a, ev, cur)
         IN  column_on_event(Tail(ws),
                             [b EXCEPT !.status = merge(a.status, b.status)],
                             ev, cur)

\* one event dispatch pass over the whole tree
dispatch(t, ev, cur) == column_on_event(Roots, NoPass(t), ev, cur)

(***************************************************************************)
(* Button::operate and the focus operations.  The operations themselves    *)
(* (FocusNext, FocusPrevious) and the column come from the widget toolkit; *)
(* they follow section 4.3 of the specification: the focused Focusable is  *)
(* unfocused and focus() is called on its successor (predecessor) in       *)
(* traversal order, with wraparound; with no focused Focusable, focus() is *)
(* called on the first (last) one.                                         *)
(***************************************************************************)
\* a synchronisation that spares a Pressed button
sync_spares_pressed(w, s) ==
    IF on_press[w] = "None"
    THEN (IF s.status = "Pressed" THEN s
          ELSE [s EXCEPT !.status = "Disabled"])
    ELSE IF s.status = "Disabled" THEN [s EXCEPT !.status = "Active"]
    ELSE s

sync_disable_only(w, s) ==
    IF on_press[w] = "None" THEN [s EXCEPT !.status = "Disabled"] ELSE s

\* "Sync disabled status so Focusable::focus() can check it"
sync(w, s) ==
    IF on_press[w] = "None" THEN [s EXCEPT !.status = "Disabled"]
    ELSE IF s.status = "Disabled" THEN [s EXCEPT !.status = "Active"]
    ELSE s

\* what an operation does with the Focusable it is given
call(c, s) ==
    CASE c = "focus" -> focus(s)
      [] c = "unfocus" -> unfocus(s)
      [] c = "unfocus_focus" -> focus(unfocus(s))
      [] OTHER -> s

\* the walk of an operation: the states of the buttons and the buttons
\* visited so far, in the order of the visits
Walk(t, v) == [tree |-> t, visited |-> v]

\* Button::operate of button w; op[k] is what the operation calls on the
\* k-th Focusable it is given
RECURSIVE operate(_, _, _)
operate(w, a, op) ==
    LET k == Len(a.visited) + 1
        b == Walk([a.tree EXCEPT ![w] = call(op[k], sync(w, a.tree[w]))],
                  Append(a.visited, w))
    IN  IF content[w] = 0 THEN b ELSE operate(content[w], b, op)

\* Column::operate: the children are visited in declared order
RECURSIVE column_operate(_, _, _)
column_operate(ws, a, op) ==
    IF ws = <<>> THEN a
    ELSE column_operate(Tail(ws), operate(Head(ws), a, op), op)

\* the Focusables of the tree in traversal order
Order == column_operate(Roots, Walk(state, <<>>),
                        [k \in Ids |-> "none"]).visited

\* the position of button w in the traversal order
Position(w) == CHOOSE k \in 1..Len(Order) : Order[k] = w

\* FocusNext, when the f-th Focusable of total is the focused one (0: none)
focus_next(f, total) ==
    [k \in 1..total |->
        IF f = 0 THEN (IF k = 1 THEN "focus" ELSE "none")
        ELSE IF total = 1 THEN "unfocus_focus"
        ELSE IF k = f THEN "unfocus"
        ELSE IF k = (f % total) + 1 THEN "focus"
        ELSE "none"]

\* FocusPrevious, when the f-th Focusable of total is the focused one
focus_previous(f, total) ==
    [k \in 1..total |->
        IF f = 0 THEN (IF k = total THEN "focus" ELSE "none")
        ELSE IF total = 1 THEN "unfocus_focus"
        ELSE IF k = f THEN "unfocus"
        ELSE IF k = (IF f = 1 THEN total ELSE f - 1) THEN "focus"
        ELSE "none"]

\* the positions an operation can find focused in tree state t
Focused(t) ==
    LET order == Order
    IN  IF \E w \in DOMAIN t : t[w].is_focused
        THEN {k \in DOMAIN order : t[order[k]].is_focused}
        ELSE {0}

\* the tree state after an operation
operated(t, op) == column_operate(Roots, Walk(t, <<>>), op).tree

\* FindFocused calls nothing on the Focusables it is given
find_focused_op == [k \in Ids |-> "none"]

\* the identities FindFocused can return in tree state t (0: none): a button
\* that reports is_focused() when the operation visits it
find_focused(t) ==
    LET a == column_operate(Roots, Walk(t, <<>>), find_focused_op)
        F == {a.visited[k] : k \in {j \in DOMAIN a.visited :
                                        is_focused(a.tree[a.visited[j]])}}
    IN  IF F = {} THEN {0} ELSE F

\* the button on which the operation calls focus() (0: none)
Target(op) ==
    IF \E k \in DOMAIN op : op[k] \in {"focus", "unfocus_focus"}
    THEN Order[CHOOSE k \in DOMAIN op : op[k] \in {"focus", "unfocus_focus"}]
    ELSE 0

(***************************************************************************)
(* Tasks (src/src/widget/operation.rs).  focus_next(f) and                 *)
(* focus_previous(f) build the task                                        *)
(*     operate(<operation>).chain(operate(find_focused()).then(f))         *)
(* which the runtime runs step by step after update has returned it; it    *)
(* holds every task that update has returned and that has not ended, and   *)
(* may drop one.  f takes an Id: it is called with the identity            *)
(* FindFocused produced, and cannot be called when FindFocused produced    *)
(* none.                                                                   *)
(***************************************************************************)
Kinds == {"focus_next", "focus_previous"}

\* a task: the step it is at ("done" when it has ended), the operation it
\* has still to run ("none" once it has run), the identity FindFocused
\* produced (0: none), the steps that ran, in order, and the arguments f was
\* called with
Task(pc, kind, found, log, called) ==
    [pc |-> pc, kind |-> kind, found |-> found, log |-> log,
     called |-> called]

\* the operation of a task of this kind
operation(kind, f, total) ==
    IF kind = "focus_next" THEN focus_next(f, total)
    ELSE focus_previous(f, total)

compose_eager(t, kind) ==
    operated(t, operation(kind, CHOOSE f \in Focused(t) : TRUE, Len(Order)))

\* the tree state after focus_next(f) or focus_previous(f) has built its
\* task: operate(..) only describes the operation
compose(t, kind) == t

chain_unordered(tk) == tk.pc \in {"composed", "operated"}

\* a.chain(b): b starts when a has completed
chain(tk) == tk.pc = "operated"

then_always(found) == <<found>>

\* a.then(f): f is called with each output of a; FindFocused outputs an Id
\* when it has found a focused widget and nothing when it has not
then(found) == IF found = 0 THEN <<>> ELSE <<found>>

(***************************************************************************)
(* The state machine.                                                      *)
(***************************************************************************)
\* the trees: a button's content is a label or the next button
Shapes(n) == {c \in [1..n -> 0..n] :
                \A w \in 1..n : c[w] = 0 \/ (c[w] = w + 1 /\ w < n)}

\* every button is built with on_focus and on_blur, with or without on_press
Init ==
    \E n \in 0..MaxButtons :
        /\ content \in Shapes(n)
        /\ on_press \in [1..n -> OnPress]
        /\ on_focus = [w \in 1..n |-> TRUE]
        /\ on_blur = [w \in 1..n |-> TRUE]
        /\ state = [w \in 1..n |-> DefaultState]
        /\ net = [w \in 1..n |-> 0]
        /\ tasks = EmptyBag
        /\ finished = {}

\* the number of messages m of button w in the messages p
Count(p, w, m) == Cardinality({i \in DOMAIN p : p[i] = Msg(w, m)})

\* focus messages minus blur messages of button w in the messages p
Net(p, w) == Count(p, w, "focus") - Count(p, w, "blur")

\* the events that carry a position, and the others
Pointer == {"Press", "Release"}

Inputs(n) == (Pointer \X (0..n)) \cup ((Events \ Pointer) \X {0})

\* the value of net for a difference that is no longer counted
Lost == MaxNet + 1

\* the difference n after a pass that has added d to it: counted while it
\* stays in -MaxNet..MaxNet, and not counted again once it has left
Counted(n, d) ==
    IF n # Lost /\ n + d \in -MaxNet..MaxNet THEN n + d ELSE Lost

\* the host delivers one event with the cursor at cur
Event(ev, cur) ==
    \E a \in {dispatch(state, ev, cur)} :
        /\ state' = a.tree
        /\ net' = [w \in Ids |-> Counted(net[w], Net(a.published, w))]
        /\ finished' = {}
        /\ UNCHANGED <<content, on_press, on_focus, on_blur, tasks>>

DispatchEvent == \E i \in Inputs(Len(content)) : Event(i[1], i[2])

\* the view is rebuilt with button w built with on_press p (or without),
\* with on_focus iff f and with on_blur iff b; the State of the button is
\* kept by the diff
Rebuild(w, p, f, b) ==
    /\ <<p, f, b>> # <<on_press[w], on_focus[w], on_blur[w]>>
    /\ on_press' = [on_press EXCEPT ![w] = p]
    /\ on_focus' = [on_focus EXCEPT ![w] = f]
    /\ on_blur' = [on_blur EXCEPT ![w] = b]
    /\ finished' = {}
    /\ UNCHANGED <<content, state, net, tasks>>

RebuildView ==
    \E w \in Ids : \E p \in OnPress : \E f, b \in BOOLEAN : Rebuild(w, p, f, b)

\* a rebuild that changes on_press only
RebuildPress ==
    \E w \in Ids : \E p \in OnPress : Rebuild(w, p, on_focus[w], on_blur[w])

\* the first button of the chain of nested buttons that button w of a tree
\* of shape c belongs to
ChainHead(c, w) ==
    CHOOSE h \in 1..w :
        /\ h = 1 \/ c[h - 1] = 0
        /\ \A k \in h..(w - 1) : c[k] # 0

\* the place of button w in a tree of shape c: the child of the column it
\* is in, and its depth in that child
Place(c, w) ==
    LET h == ChainHead(c, w)
    IN  <<Cardinality({k \in 1..h : k = 1 \/ c[k - 1] = 0}), w - h>>

\* the button of the tree at the place of button w of a tree of shape c
\* (0: the tree has no button there)
Kept(c, w) ==
    IF \E k \in Ids : Place(content, k) = Place(c, w)
    THEN CHOOSE k \in Ids : Place(content, k) = Place(c, w)
    ELSE 0

\* the view is rebuilt with shape c: the diff keeps the State of a button
\* whose place has a button in the tree, and makes a default State for a
\* button that was a label or was not there; the new buttons are
\* Button::new(content)
Reshape(c) ==
    /\ c # content
    /\ content' = c
    /\ on_press' = [w \in DOMAIN c |->
                      IF Kept(c, w) = 0 THEN "None" ELSE on_press[Kept(c, w)]]
    /\ on_focus' = [w \in DOMAIN c |-> Kept(c, w) # 0 /\ on_focus[Kept(c, w)]]
    /\ on_blur' = [w \in DOMAIN c |-> Kept(c, w) # 0 /\ on_blur[Kept(c, w)]]
    /\ state' = [w \in DOMAIN c |->
                   IF Kept(c, w) = 0 THEN DefaultState ELSE state[Kept(c, w)]]
    /\ net' = [w \in DOMAIN c |-> IF Kept(c, w) = 0 THEN 0 ELSE net[Kept(c, w)]]
    /\ finished' = {}
    /\ UNCHANGED tasks

ReshapeView == \E n \in 0..MaxButtons : \E c \in Shapes(n) : Reshape(c)

\* the tasks the runtime holds
Held == BagToSet(tasks)

\* the tasks of the runtime with task tk taken out
Without(tk) == tasks (-) SetToBag({tk})

\* the tasks the runtime holds and the one that has just ended
Ran == Held \cup finished

\* the tasks of the runtime when task tk has become task next
Stepped(tk, next) == Without(tk) (+) SetToBag({next})

\* update returns focus_next(f) or focus_previous(f): one more task for the
\* runtime
Compose(kind) ==
    /\ BagCardinality(tasks) < MaxTasks
    /\ tasks' = tasks (+) SetToBag({Task("composed", kind, 0, <<>>, <<>>)})
    /\ state' = compose(state, kind)
    /\ finished' = {}
    /\ UNCHANGED <<content, on_press, on_focus, on_blur, net>>

ComposeTask == \E kind \in Kinds : Compose(kind)

\* the runtime runs the first operation of task tk
TaskOperate(tk) ==
    /\ tk.pc = "composed"
    /\ \E f \in Focused(state) :
         state' = operated(state, operation(tk.kind, f, Len(Order)))
    /\ tasks' = Stepped(tk, [tk EXCEPT !.pc = "operated", !.kind = "none",
                                      !.log = Append(tk.log, "operation")])
    /\ finished' = {}
    /\ UNCHANGED <<content, on_press, on_focus, on_blur, net>>

\* the runtime runs FindFocused of task tk
TaskFind(tk) ==
    /\ chain(tk)
    /\ \E r \in find_focused(state) :
         tasks' = Stepped(tk, [tk EXCEPT !.pc = "found", !.found = r,
                                        !.log = Append(tk.log, "FindFocused")])
    /\ state' = operated(state, find_focused_op)
    /\ finished' = {}
    /\ UNCHANGED <<content, on_press, on_focus, on_blur, net>>

\* the runtime passes the output of FindFocused of task tk to f, which
\* ends the task
TaskThen(tk) ==
    /\ tk.pc = "found"
    /\ tasks' = Without(tk)
    /\ finished' = {[tk EXCEPT
                        !.pc = "done",
                        !.called = then(tk.found),
                        !.log = tk.log \o [k \in DOMAIN then(tk.found)
                                             |-> "f"]]}
    /\ UNCHANGED <<content, on_press, on_focus, on_blur, state, net>>

\* the runtime drops task tk, at whatever step it is
TaskDrop(tk) ==
    /\ tasks' = Without(tk)
    /\ finished' = {}
    /\ UNCHANGED <<content, on_press, on_focus, on_blur, state, net>>

RunOperate == \E tk \in Held : TaskOperate(tk)

RunFind == \E tk \in Held : TaskFind(tk)

RunThen == \E tk \in Held : TaskThen(tk)

DropTask == \E tk \in Held : TaskDrop(tk)

\* the runtime runs the tasks that update returns, one step of one task at
\* a time, between the event passes
NextTask ==
    \/ DispatchEvent
    \/ ComposeTask
    \/ RunOperate
    \/ RunFind
    \/ RunThen
    \/ DropTask

SpecTask == Init /\ [][NextTask]_vars

\* the same, with views that are rebuilt with another on_press
NextPress ==
    \/ DispatchEvent
    \/ RebuildPress
    \/ ComposeTask
    \/ RunOperate
    \/ RunFind
    \/ RunThen
    \/ DropTask

SpecPress == Init /\ [][NextPress]_vars

\* the same, with views that are rebuilt with another shape
NextShape ==
    \/ DispatchEvent
    \/ ReshapeView
    \/ ComposeTask
    \/ RunOperate
    \/ RunFind
    \/ RunThen
    \/ DropTask

SpecShape == Init /\ [][NextShape]_vars

\* a tree of one button, built with or without each of its messages
InitButton ==
    /\ content = <<0>>
    /\ on_press \in [1..1 -> OnPress]
    /\ on_focus \in [1..1 -> BOOLEAN]
    /\ on_blur \in [1..1 -> BOOLEAN]
    /\ state = <<DefaultState>>
    /\ net = <<0>>
    /\ tasks = EmptyBag
    /\ finished = {}

\* events, tasks and views that are rebuilt with other messages
NextView ==
    \/ DispatchEvent
    \/ RebuildView
    \/ ComposeTask
    \/ RunOperate
    \/ RunFind
    \/ RunThen
    \/ DropTask

SpecView == InitButton /\ [][NextView]_vars

\* every step of the host: events, task steps, and views that are rebuilt
\* with other messages and another shape
Next ==
    \/ DispatchEvent
    \/ RebuildView
    \/ ReshapeView
    \/ ComposeTask
    \/ RunOperate
    \/ RunFind
    \/ RunThen
    \/ DropTask

Spec == Init /\ [][Next]_vars

TypeOK ==
    /\ content \in Shapes(Len(content))
    /\ state \in [Ids -> [is_focused : BOOLEAN, was_focused : BOOLEAN,
                          status : Status]]
    /\ on_press \in [Ids -> OnPress]
    /\ on_focus \in [Ids -> BOOLEAN]
    /\ on_blur \in [Ids -> BOOLEAN]
    /\ net \in [Ids -> -MaxNet..MaxNet \cup {Lost}]
    /\ BagCardinality(tasks) <= MaxTasks
    /\ \A tk \in Held :
          tk \in [pc : {"composed", "operated", "found"},
                 kind : {"none"} \cup Kinds,
                 found : Nat,
                 log : Seq({"operation", "FindFocused"}),
                 called : {<<>>}]
    /\ Cardinality(finished) <= 1
    /\ \A tk \in finished :
          tk \in [pc : {"done"},
                 kind : {"none"},
                 found : Nat,
                 log : Seq({"operation", "FindFocused", "f"}),
                 called : Seq(Nat \ {0})]

\* a column of three buttons, each built with or without on_press
InitColumn ==
    /\ content = <<0, 0, 0>>
    /\ on_press \in [1..3 -> OnPress]
    /\ on_focus = [w \in 1..3 |-> TRUE]
    /\ on_blur = [w \in 1..3 |-> TRUE]
    /\ state = [w \in 1..3 |-> DefaultState]
    /\ net = [w \in 1..3 |-> 0]
    /\ tasks = EmptyBag
    /\ finished = {}

SpecColumn == InitColumn /\ [][NextTask]_vars

\* the widgets of the form of the focus example, in traversal order: the
\* username and password text fields and the submit button
Username == 1

Password == 2

Submit == 3

\* trees in which each button is built with or without on_focus and on_blur
InitMessages ==
    \E n \in 0..MaxButtons :
        /\ content \in Shapes(n)
        /\ on_press \in [1..n -> OnPress]
        /\ on_focus \in [1..n -> BOOLEAN]
        /\ on_blur \in [1..n -> BOOLEAN]
        /\ state = [w \in 1..n |-> DefaultState]
        /\ net = [w \in 1..n |-> 0]
        /\ tasks = EmptyBag
        /\ finished = {}

SpecMessages == InitMessages /\ [][DispatchEvent]_vars

(***************************************************************************)
(* Properties.                                                             *)
(***************************************************************************)
\* the buttons focused in tree state t
FocusedIds(t) == {w \in DOMAIN t : t[w].is_focused}

\* the content of w captured the event of pass a
ByContent(a, w) == content[w] # 0 /\ a.returned[content[w]] = "Captured"

\* the messages of button w in the messages p
Published(p, w) == {i \in DOMAIN p : p[i].id = w}

\* the operations the runtime can run on the tree
NextOps == {focus_next(f, Len(Order)) : f \in Focused(state)}

PreviousOps == {focus_previous(f, Len(Order)) : f \in Focused(state)}

AllInputs == Inputs(Len(content))

\* C1: after every step at most one button has is_focused = TRUE.
C1_SingleFocus == Cardinality(FocusedIds(state)) <= 1

\* C2, as stated: after every step, the focus messages minus the blur
\* messages a button has published are 1 if it is focused and 0 if not.
C2_NetIsFocused ==
    \A w \in Ids : net[w] = IF state[w].is_focused THEN 1 ELSE 0

\* C2, amended: after every event dispatch pass in which the content of the
\* button did not capture the event, the focus messages minus the blur
\* messages the button has published are 1 if it is focused and 0 if not.
C2_NetAfterPass ==
    \A i \in AllInputs :
        LET a == dispatch(state, i[1], i[2])
        IN  \A w \in Ids :
                ~ByContent(a, w) =>
                    net[w] + Net(a.published, w)
                        = IF a.tree[w].is_focused THEN 1 ELSE 0

\* an operation has focused a button, and the next pass publishes it
C2_Witness ==
    \E w \in Ids : \E i \in AllInputs :
        LET a == dispatch(state, i[1], i[2])
        IN  /\ state[w].is_focused /\ ~state[w].was_focused
            /\ net[w] = 0
            /\ ~ByContent(a, w)
            /\ Count(a.published, w, "focus") = 1
            /\ a.tree[w].is_focused

\* C3: when FocusNext or FocusPrevious calls focus() on an unfocused button
\* without on_press, the button stays unfocused and its state is the one
\* operate has synchronised: focus() changed no field.
C3_DisabledFocusNoOp ==
    \A op \in NextOps \cup PreviousOps :
        LET t == Target(op)
        IN  (t # 0 /\ on_press[t] = "None" /\ ~state[t].is_focused) =>
                /\ ~operated(state, op)[t].is_focused
                /\ operated(state, op)[t] = sync(t, state[t])

\* an operation moves the focus from a focused button to a disabled one
C3_Witness ==
    \E op \in NextOps \cup PreviousOps :
        LET t == Target(op)
        IN  /\ t # 0 /\ on_press[t] = "None" /\ ~state[t].is_focused
            /\ FocusedIds(state) # {}
            /\ operated(state, op) # state

\* C4: when the content of a button captures an event, the button returns
\* Captured, publishes no message and keeps its state.
C4_CapturePrecedence ==
    \A i \in AllInputs :
        LET a == dispatch(state, i[1], i[2])
        IN  \A w \in Ids :
                ByContent(a, w) =>
                    /\ a.returned[w] = "Captured"
                    /\ a.tree[w] = state[w]
                    /\ Published(a.published, w) = {}

\* the content captures an event while the button has a focus change that
\* it has not published yet
C4_Witness ==
    \E i \in AllInputs : \E w \in Ids :
        /\ ByContent(dispatch(state, i[1], i[2]), w)
        /\ state[w].is_focused # state[w].was_focused
        /\ on_press[w] = "Some"

\* C5, as stated: on an unfocused Active button with on_press, a press
\* inside its bounds followed by a release inside its bounds publishes the
\* activation message exactly once and leaves it Active and focused.
C5_PressRelease ==
    \A w \in Ids : \A c1, c2 \in 0..Len(content) :
        ( /\ on_press[w] = "Some"
          /\ ~state[w].is_focused /\ state[w].status = "Active"
          /\ is_over(w, c1) /\ is_over(w, c2) ) =>
            LET a == dispatch(state, "Press", c1)
                b == dispatch(a.tree, "Release", c2)
            IN  /\ Count(a.published \o b.published, w, "press") = 1
                /\ b.tree[w].status = "Active"
                /\ b.tree[w].is_focused

\* C5, amended: the same, when the content of the button captures neither
\* the press nor the release.
C5_PressReleaseOwn ==
    \A c1 \in 0..Len(content) :
        LET a == dispatch(state, "Press", c1)
        IN  \A c2 \in 0..Len(content) :
                LET b == dispatch(a.tree, "Release", c2)
                IN  \A w \in Ids :
                        ( /\ on_press[w] = "Some"
                          /\ ~state[w].is_focused
                          /\ state[w].status = "Active"
                          /\ is_over(w, c1) /\ is_over(w, c2)
                          /\ ~ByContent(a, w) /\ ~ByContent(b, w) ) =>
                            /\ Count(a.published \o b.published, w,
                                     "press") = 1
                            /\ b.tree[w].status = "Active"
                            /\ b.tree[w].is_focused

\* an unfocused Active button is pressed and released inside its bounds,
\* and it handles both events itself
C5_Witness ==
    \E w \in Ids : \E c1, c2 \in 0..Len(content) :
        LET a == dispatch(state, "Press", c1)
            b == dispatch(a.tree, "Release", c2)
        IN  /\ on_press[w] = "Some"
            /\ ~state[w].is_focused /\ state[w].status = "Active"
            /\ is_over(w, c1) /\ is_over(w, c2)
            /\ a.returned[w] = "Captured" /\ ~ByContent(a, w)
            /\ b.returned[w] = "Captured" /\ ~ByContent(b, w)
            /\ Count(b.published, w, "press") = 1

\* C6: a press outside the bounds of a focused button, with or without
\* on_press, sets is_focused and was_focused to FALSE, publishes one blur
\* message and is not captured by the button.
C6_PressOutsideBlurs ==
    \A w \in Ids : \A c \in 0..Len(content) :
        (state[w].is_focused /\ ~is_over(w, c)) =>
            LET a == dispatch(state, "Press", c)
            IN  /\ ~a.tree[w].is_focused
                /\ ~a.tree[w].was_focused
                /\ on_blur[w] => Count(a.published, w, "blur") = 1
                /\ a.returned[w] # "Captured"

\* C7: the on_press closure runs only in a pass that publishes the
\* activation message of its button.
C7_ClosureOnlyOnActivation ==
    \A i \in AllInputs :
        LET a == dispatch(state, i[1], i[2])
        IN  \A w \in a.invoked : Count(a.published, w, "press") >= 1

\* C8: FocusNext with the last Focusable focused focuses the first, and
\* FocusPrevious with the first Focusable focused focuses the last.
C8_Wraparound ==
    LET total == Len(Order)
    IN  /\ \A f \in Focused(state) :
              (f # 0 /\ f = total) =>
                  operated(state, focus_next(f, total))[Order[1]].is_focused
        /\ \A f \in Focused(state) :
              (f = 1) =>
                  operated(state,
                           focus_previous(f, total))[Order[total]].is_focused

\* C9: with at least 2 Focusables, FocusNext and then FocusPrevious from
\* the tree in which only button i is focused leaves only i focused.
C9_NextThenPrevious ==
    \A i \in Ids :
        (Len(Order) >= 2 /\ FocusedIds(state) = {i}) =>
            LET total == Len(Order)
                t1 == operated(state, focus_next(Position(i), total))
            IN  \A f \in Focused(t1) :
                    FocusedIds(operated(t1, focus_previous(f, total))) = {i}

\* C10: on [Increment, Decrement, Reset without on_press] with no button
\* focused, three FocusNext focus Increment, Decrement, Increment.
C10_SkipsDisabled ==
    ( /\ content = <<0, 0, 0>>
      /\ on_press = <<"Some", "Some", "None">>
      /\ FocusedIds(state) = {} ) =>
        LET t1 == operated(state, focus_next(0, 3))
            t2 == operated(t1, focus_next(1, 3))
        IN  /\ FocusedIds(t1) = {1}
            /\ FocusedIds(t2) = {2}
            /\ \A f \in Focused(t2) :
                   FocusedIds(operated(t2, focus_next(f, 3))) = {1}

\* C11: in a tree whose only Focusable is an enabled button that is focused
\* and reconciled, FocusNext and FocusPrevious leave the button focused, and
\* no event of the following pass makes it publish a focus or blur message.
C11_SingleFocusable ==
    (Len(content) = 1 /\ on_press[1] = "Some"
        /\ state[1].is_focused /\ state[1].was_focused) =>
      \A op \in NextOps \cup PreviousOps :
        LET t == operated(state, op)
        IN  /\ t[1].is_focused
            /\ \A i \in AllInputs :
                  LET p == dispatch(t, i[1], i[2]).published
                  IN  Count(p, 1, "focus") = 0 /\ Count(p, 1, "blur") = 0

\* C11 amended: as C11, for every event of the following pass but a pointer
\* press outside the bounds of the button, which blurs it.
C11_SingleFocusableKept ==
    (Len(content) = 1 /\ on_press[1] = "Some"
        /\ state[1].is_focused /\ state[1].was_focused) =>
      \A op \in NextOps \cup PreviousOps :
        LET t == operated(state, op)
        IN  /\ t[1].is_focused
            /\ \A i \in AllInputs :
                  \/ (i[1] = "Press" /\ ~is_over(1, i[2]))
                  \/ LET p == dispatch(t, i[1], i[2]).published
                     IN  Count(p, 1, "focus") = 0 /\ Count(p, 1, "blur") = 0

C11_Witness ==
    /\ Len(content) = 1 /\ on_press[1] = "Some"
    /\ state[1].is_focused /\ state[1].was_focused
    /\ \E op \in NextOps : op[1] = "unfocus_focus"

\* C12: in a tree without Focusables FocusNext and FocusPrevious change no
\* state and FindFocused returns none; in any tree in which no widget is
\* focused FindFocused returns none.
C12_NoneFocused ==
    /\ Ids = {} =>
          /\ \A op \in NextOps \cup PreviousOps : operated(state, op) = state
          /\ find_focused(state) = {0}
    /\ FocusedIds(state) = {} => find_focused(state) = {0}

C12_Witness ==
    /\ Ids # {}
    /\ FocusedIds(state) = {}
    /\ \E w \in Ids : state[w].was_focused
    /\ find_focused(state) = {0}

\* C13: in a focus_next(f) (focus_previous(f)) task FindFocused starts only
\* after the operation FocusNext (FocusPrevious) has completed and f is
\* called only after FindFocused has produced its result: the steps that
\* have run are always the first steps of <<operation, FindFocused, f>>.
C13_StepOrder ==
    LET steps == <<"operation", "FindFocused", "f">>
    IN  \A tk \in Ran :
            /\ Len(tk.log) <= 3
            /\ \A k \in DOMAIN tk.log : tk.log[k] = steps[k]
            /\ tk.pc = "composed" => tk.log = <<>>
            /\ tk.pc = "operated" => Len(tk.log) = 1
            /\ tk.pc = "found" => Len(tk.log) = 2

\* a task has run its three steps while another one was between its steps
C13_Witness ==
    \E tk \in finished : \E other \in Held :
        /\ tk.pc = "done"
        /\ tk.log = <<"operation", "FindFocused", "f">>
        /\ tk.called # <<>>
        /\ other.pc = "operated"

\* a result of FindFocused in the current state names a button that is
\* focused, and is none exactly when no button is focused
FoundIsFocused ==
    \A r \in find_focused(state) :
        IF FocusedIds(state) = {} THEN r = 0 ELSE r \in FocusedIds(state)

\* C14: every run of a focus_next(f) or focus_previous(f) task calls f
\* exactly once, with the identity of the button that is focused when
\* FindFocused runs, or with none (0) when no button is focused then.
C14_CalledOnce ==
    \A tk \in Ran :
        /\ tk.pc = "operated" => FoundIsFocused
        /\ tk.pc # "done" => tk.called = <<>>
        /\ tk.pc = "done" => tk.called = <<tk.found>>

\* C14 amended: a run calls f at most once: once with the identity of a
\* button that is focused when FindFocused runs, and not at all when no
\* button is focused then.
C14_CalledWhenFound ==
    \A tk \in Ran :
        /\ tk.pc = "operated" => FoundIsFocused
        /\ tk.pc # "done" => tk.called = <<>>
        /\ tk.pc = "done" =>
              IF tk.found = 0 THEN tk.called = <<>>
              ELSE tk.called = <<tk.found>>

C14_Witness ==
    \E tk \in finished :
        /\ tk.pc = "done"
        /\ tk.found # 0
        /\ tk.called = <<tk.found>>

\* C15: building a focus_next(f) or focus_previous(f) task changes no
\* button state and does not call f; the focus change and the call happen
\* in later steps of the runtime.
C15_ComposeIsPure ==
    [][BagCardinality(tasks') > BagCardinality(tasks) =>
          /\ state' = state
          /\ net' = net
          /\ finished' = {}
          /\ \E kind \in Kinds :
                tasks' = tasks (+) SetToBag({Task("composed", kind, 0,
                                                  <<>>, <<>>)})]_vars

C15_Witness ==
    \E tk \in Held :
        /\ tk.pc = "composed"
        /\ tk.log = <<>>
        /\ \A f \in Focused(state) :
              operated(state, operation(tk.kind, f, Len(Order))) # state

\* C16: a button without on_press returns Ignored for every event that its
\* content does not capture, whatever the event and the state of the button.
C16_DisabledIgnores ==
    \A i \in AllInputs :
        LET a == dispatch(state, i[1], i[2])
        IN  \A w \in Ids :
                (on_press[w] = "None" /\ ~ByContent(a, w)) =>
                    a.returned[w] = "Ignored"

C16_Witness ==
    \E w \in Ids :
        /\ on_press[w] = "None"
        /\ state[w].is_focused
        /\ state[w].status = "Pressed"
        /\ dispatch(state, "KeyActivate", 0).returned[w] = "Ignored"
        /\ dispatch(state, "Release", w).returned[w] = "Ignored"

\* C17: in every reachable state the stored status of a button is Disabled
\* if and only if the button has no on_press.
C17_DisabledIffNoHandler ==
    \A w \in Ids : state[w].status = "Disabled" <=> on_press[w] = "None"

\* C17 amended: right after an operation has traversed the tree the stored
\* status of every button is Disabled if and only if the button has no
\* on_press.
C17_DisabledAfterOperate ==
    \A op \in NextOps \cup PreviousOps \cup {find_focused_op} :
        LET t == operated(state, op)
        IN  \A w \in Ids : t[w].status = "Disabled" <=> on_press[w] = "None"

C17_Witness ==
    /\ \E w \in Ids : on_press[w] = "None" /\ state[w].status = "Pressed"
    /\ \E w \in Ids : on_press[w] = "Some" /\ state[w].status = "Disabled"

\* C18: in a pass over a tree of sibling buttons at most one button
\* captures the event by its own handling.
C18_OneCapturer ==
    (\A w \in Ids : content[w] = 0) =>
        \A i \in AllInputs :
            LET a == dispatch(state, i[1], i[2])
            IN  Cardinality({w \in Ids : a.returned[w] = "Captured"}) <= 1

\* C19: in the form of the focus example, while the form is invalid and
\* only the username field is focused, Tab (FocusNext) focuses the password
\* field and the next Tab the username field again, and Shift+Tab
\* (FocusPrevious) does the same in reverse.
C19_FormTabCycle ==
    ( /\ content = <<0, 0, 0>>
      /\ on_press[Username] = "Some" /\ on_press[Password] = "Some"
      /\ on_press[Submit] = "None"
      /\ FocusedIds(state) = {Username} ) =>
        LET n1 == operated(state, focus_next(Username, 3))
            p1 == operated(state, focus_previous(Username, 3))
        IN  /\ FocusedIds(n1) = {Password}
            /\ \A f \in Focused(n1) :
                   FocusedIds(operated(n1, focus_next(f, 3))) = {Username}
            /\ FocusedIds(p1) = {Password}
            /\ \A f \in Focused(p1) :
                   FocusedIds(operated(p1, focus_previous(f, 3)))
                       = {Username}

\* C20: draw leaves the stored state as it is, and the status it draws is
\* Disabled without on_press; otherwise Focused, hovered iff the cursor is
\* over the bounds, when the button is focused; otherwise, with the cursor
\* over the bounds, Pressed when the stored status is Pressed and Hovered
\* when it is not; otherwise Active.
C20_DrawStatus ==
    \A w \in Ids : \A cur \in 0..Len(content) :
        LET d == draw(w, state, cur)
            over == cur # 0 /\ cur \in Subtree(w)
            enabled == on_press[w] = "Some"
            focused == state[w].is_focused
        IN  /\ d.tree = state
            /\ ~enabled => d.status.name = "Disabled"
            /\ (enabled /\ focused) =>
                  d.status.name = "Focused" /\ d.status.is_hovered = over
            /\ (enabled /\ ~focused /\ over /\ state[w].status = "Pressed")
                  => d.status.name = "Pressed"
            /\ (enabled /\ ~focused /\ over /\ state[w].status # "Pressed")
                  => d.status.name = "Hovered"
            /\ (enabled /\ ~focused /\ ~over) => d.status.name = "Active"

C20_Witness ==
    /\ \E w \in Ids :
          /\ on_press[w] = "Some" /\ ~state[w].is_focused
          /\ state[w].status = "Pressed"
          /\ draw(w, state, w).status.name = "Pressed"
          /\ draw(w, state, 0).status.name = "Active"
    /\ \E w \in Ids :
          /\ on_press[w] = "Some" /\ state[w].is_focused
          /\ draw(w, state, w).status = Rendered("Focused", TRUE)

\* the message that publishes the focus state of s
Matching(s) == IF s.is_focused THEN "focus" ELSE "blur"

\* button w is built with the message m
Registered(w, m) == IF m = "focus" THEN on_focus[w] ELSE on_blur[w]

\* C21: when is_focused of a button differs from was_focused, an event that
\* the content captures leaves the button as it is, and the first event the
\* content does not capture publishes the matching message, if the button
\* has it, exactly once and makes was_focused equal to is_focused; once they
\* are equal, an event publishes a focus or blur message only when it
\* changes the focus itself.
C21_PublishedOnce ==
    \A i \in AllInputs :
      LET a == dispatch(state, i[1], i[2])
      IN  \A w \in Ids :
        LET n == Count(a.published, w, "focus")
                   + Count(a.published, w, "blur")
        IN  IF state[w].is_focused = state[w].was_focused
            THEN IF a.tree[w].is_focused = state[w].is_focused
                 THEN n = 0
                 ELSE n = IF Registered(w, Matching(a.tree[w])) THEN 1 ELSE 0
            ELSE IF ByContent(a, w)
                 THEN a.tree[w] = state[w] /\ n = 0
                 ELSE /\ Count(a.published, w, Matching(state[w]))
                            = IF Registered(w, Matching(state[w])) THEN 1
                              ELSE 0
                      /\ a.tree[w].was_focused = a.tree[w].is_focused

C21_Witness ==
    \E w \in Ids :
        LET a == dispatch(state, "Other", 0)
        IN  /\ ~state[w].is_focused /\ state[w].was_focused
            /\ Count(a.published, w, "blur") = 1
            /\ ~a.tree[w].was_focused
            /\ Published(dispatch(a.tree, "Other", 0).published, w) = {}

\* C22: a press inside the bounds of a button with on_press, not captured
\* by its content, sets the status to Pressed and is_focused and
\* was_focused to TRUE, is captured, and publishes the focus message
\* exactly when the button was not focused before the event.
C22_PressInside ==
    \A w \in Ids : \A c \in 0..Len(content) :
        LET a == dispatch(state, "Press", c)
        IN  (on_press[w] = "Some" /\ is_over(w, c) /\ ~ByContent(a, w)) =>
                /\ a.tree[w] = [is_focused |-> TRUE, was_focused |-> TRUE,
                                status |-> "Pressed"]
                /\ a.returned[w] = "Captured"
                /\ Count(a.published, w, "focus")
                      = IF state[w].is_focused THEN 0 ELSE 1

\* C22 amended: the same, but the focus message, if the button has one, is
\* published exactly when the button was not focused or its focus had not
\* been published yet (was_focused was FALSE) before the event.
C22_PressInsideReconciled ==
    \A c \in 0..Len(content) :
      LET a == dispatch(state, "Press", c)
      IN  \A w \in Ids :
            (on_press[w] = "Some" /\ is_over(w, c) /\ ~ByContent(a, w)) =>
                /\ a.tree[w] = [is_focused |-> TRUE, was_focused |-> TRUE,
                                status |-> "Pressed"]
                /\ a.returned[w] = "Captured"
                /\ Count(a.published, w, "focus")
                      = IF on_focus[w]
                           /\ ~(state[w].is_focused /\ state[w].was_focused)
                        THEN 1 ELSE 0

C22_Witness ==
    \E w \in Ids :
        LET a == dispatch(state, "Press", w)
        IN  /\ on_press[w] = "Some"
            /\ state[w].is_focused /\ state[w].was_focused
            /\ state[w].status = "Active"
            /\ a.returned[w] = "Captured" /\ ~ByContent(a, w)
            /\ a.tree[w].status = "Pressed"
            /\ Count(a.published, w, "focus") = 0

\* C23: on a button with on_press and status Pressed a release sets the
\* status to Active and is captured wherever the cursor is, and publishes
\* the activation message iff the cursor is inside the bounds; with another
\* status the release is Ignored and changes neither status nor focus.
C23_Release ==
    \A w \in Ids : \A c \in 0..Len(content) :
        LET a == dispatch(state, "Release", c)
        IN  on_press[w] = "Some" =>
                IF state[w].status = "Pressed"
                THEN /\ a.tree[w].status = "Active"
                     /\ a.returned[w] = "Captured"
                     /\ Count(a.published, w, "press")
                           = IF is_over(w, c) THEN 1 ELSE 0
                ELSE /\ a.returned[w] = "Ignored"
                     /\ a.tree[w].status = state[w].status
                     /\ a.tree[w].is_focused = state[w].is_focused

\* C23 amended: the same, for a release that the content of the button
\* does not capture.
C23_ReleaseOwn ==
    \A c \in 0..Len(content) :
      LET a == dispatch(state, "Release", c)
      IN  \A w \in Ids :
            (on_press[w] = "Some" /\ ~ByContent(a, w)) =>
                IF state[w].status = "Pressed"
                THEN /\ a.tree[w].status = "Active"
                     /\ a.returned[w] = "Captured"
                     /\ Count(a.published, w, "press")
                           = IF is_over(w, c) THEN 1 ELSE 0
                ELSE /\ a.returned[w] = "Ignored"
                     /\ a.tree[w].status = state[w].status
                     /\ a.tree[w].is_focused = state[w].is_focused

C23_Witness ==
    \E w \in Ids :
        LET a == dispatch(state, "Release", 0)
        IN  /\ on_press[w] = "Some" /\ state[w].status = "Pressed"
            /\ ~ByContent(a, w)
            /\ a.returned[w] = "Captured"
            /\ a.tree[w].status = "Active"
            /\ Count(a.published, w, "press") = 0

\* C24: FingerLost sets the status of a button to Active, publishes no
\* activation message, leaves is_focused as it is and is not captured by
\* the button.
C24_FingerLost ==
    LET a == dispatch(state, "FingerLost", 0)
    IN  \A w \in Ids :
            /\ a.tree[w].status = "Active"
            /\ Count(a.published, w, "press") = 0
            /\ a.tree[w].is_focused = state[w].is_focused
            /\ a.returned[w] = "Ignored"

C24_Witness ==
    \E w \in Ids :
        /\ state[w].status = "Pressed" /\ state[w].is_focused
        /\ on_press[w] = "Some"
        /\ dispatch(state, "FingerLost", 0).tree[w].status = "Active"
        /\ dispatch(state, "FingerLost", 0).tree[w].is_focused

\* C25: Enter or Space on a focused button with on_press sets the status to
\* Pressed, publishes the activation message once and is captured; on a
\* button that is not focused or has no on_press, and for any other key,
\* the key is Ignored and no activation message is published.
C25_KeyActivates ==
    \A w \in Ids : \A k \in {"KeyActivate", "KeyOther"} :
        LET a == dispatch(state, k, 0)
        IN  IF k = "KeyActivate" /\ on_press[w] = "Some"
                /\ state[w].is_focused
            THEN /\ a.tree[w].status = "Pressed"
                 /\ Count(a.published, w, "press") = 1
                 /\ a.returned[w] = "Captured"
            ELSE /\ a.returned[w] = "Ignored"
                 /\ Count(a.published, w, "press") = 0

\* C25 amended: the same, for a key that the content of the button does
\* not capture.
C25_KeyActivatesOwn ==
    \A k \in {"KeyActivate", "KeyOther"} :
      LET a == dispatch(state, k, 0)
      IN  \A w \in Ids :
            ~ByContent(a, w) =>
              IF k = "KeyActivate" /\ on_press[w] = "Some"
                  /\ state[w].is_focused
              THEN /\ a.tree[w].status = "Pressed"
                   /\ Count(a.published, w, "press") = 1
                   /\ a.returned[w] = "Captured"
              ELSE /\ a.returned[w] = "Ignored"
                   /\ Count(a.published, w, "press") = 0

C25_Witness ==
    \E w \in Ids :
        LET a == dispatch(state, "KeyActivate", 0)
        IN  /\ on_press[w] = "Some" /\ state[w].is_focused
            /\ state[w].status = "Active"
            /\ ~ByContent(a, w)
            /\ a.tree[w].status = "Pressed"
            /\ a.returned[w] = "Captured"
            /\ dispatch(state, "KeyOther", 0).returned[w] = "Ignored"

\* C26: an event that is no press, release, FingerLost or key-down is not
\* captured by a button and changes neither is_focused nor status; it can
\* change was_focused only, which becomes is_focused.
C26_OtherEvent ==
    LET a == dispatch(state, "Other", 0)
    IN  \A w \in Ids :
            /\ a.returned[w] = "Ignored"
            /\ a.tree[w] = [state[w] EXCEPT !.was_focused = state[w].is_focused]
            /\ Count(a.published, w, "press") = 0

C26_Witness ==
    \E w \in Ids :
        /\ state[w].status = "Pressed"
        /\ state[w].is_focused # state[w].was_focused
        /\ dispatch(state, "Other", 0).tree[w] # state[w]

\* C27: an operation is given the buttons in depth-first pre-order, a
\* button before its content and the children of the column in declared
\* order, and FocusNext moves the focus from the only focused button to its
\* immediate successor in that order.
C27_PreOrderSuccessor ==
    /\ Order = [k \in Ids |-> k]
    /\ \A w \in Ids : content[w] # 0 => Position(content[w]) = Position(w) + 1
    /\ \A i \in Ids :
          (FocusedIds(state) = {i} /\ Position(i) < Len(Order)) =>
              FocusedIds(operated(state, focus_next(Position(i), Len(Order))))
                  = {Order[Position(i) + 1]}

\* C28: when no button is focused, FocusNext focuses the first button in
\* traversal order, so that exactly one button is focused afterwards
\* whenever the tree has a button.
C28_FocusesFirst ==
    (FocusedIds(state) = {} /\ Ids # {}) =>
        FocusedIds(operated(state, focus_next(0, Len(Order)))) = {Order[1]}

\* the values of State
States == [is_focused : BOOLEAN, was_focused : BOOLEAN, status : Status]

\* C29: focus() and unfocus() are idempotent, and unfocus() always leaves
\* is_focused FALSE, whatever the status; checked on every State and on the
\* States of the tree after the operations have synchronised the status.
C29_Idempotent ==
    \A s \in States \cup {sync(w, state[w]) : w \in Ids} :
        /\ focus(focus(s)) = focus(s)
        /\ unfocus(unfocus(s)) = unfocus(s)
        /\ ~is_focused(unfocus(s))

C29_Witness ==
    \E w \in Ids :
        /\ state[w].is_focused
        /\ state[w].status = "Disabled"
        /\ focus(state[w]) = state[w]
        /\ unfocus(state[w]) # state[w]
        /\ ~is_focused(unfocus(state[w]))

\* C30: after every on_event call in which the content of the button did
\* not capture the event, is_focused of the button equals was_focused.
C30_Reconciled ==
    \A i \in AllInputs :
        LET a == dispatch(state, i[1], i[2])
        IN  \A w \in Ids :
                ~ByContent(a, w) =>
                    a.tree[w].is_focused = a.tree[w].was_focused

C30_Witness ==
    \E w \in Ids : \E c \in 0..Len(content) :
        LET a == dispatch(state, "Press", c)
        IN  /\ state[w].is_focused /\ ~state[w].was_focused
            /\ on_press[w] = "Some" /\ ~is_over(w, c)
            /\ ~ByContent(a, w)
            /\ ~a.tree[w].is_focused /\ ~a.tree[w].was_focused

\* C31: in every reachable state the focus messages minus the blur messages
\* a button has published are 1 if its was_focused is TRUE and 0 if not
\* (the buttons have on_focus and on_blur).
C31_NetIsWasFocused ==
    \A w \in Ids : net[w] = IF state[w].was_focused THEN 1 ELSE 0

C31_Witness ==
    \E w \in Ids :
        /\ state[w].was_focused /\ ~state[w].is_focused
        /\ net[w] = 1

\* C32: a release publishes an activation message and is captured only if
\* the button was pressed inside its bounds since its last release or
\* FingerLost: on a focused Active button with on_press, Enter or Space
\* followed by a release publishes no activation message for the release,
\* and the release is not captured by the button.
C32_ReleaseNeedsPress ==
    \A w \in Ids : \A c \in 0..Len(content) :
        LET a == dispatch(state, "KeyActivate", 0)
            b == dispatch(a.tree, "Release", c)
        IN  ( /\ on_press[w] = "Some" /\ state[w].is_focused
              /\ state[w].status = "Active"
              /\ ~ByContent(a, w) /\ ~ByContent(b, w) ) =>
                /\ Count(b.published, w, "press") = 0
                /\ b.returned[w] = "Ignored"

\* C33: in every reachable state a button without on_press whose stored
\* status is Disabled is not focused.
C33_DisabledNotFocused ==
    \A w \in Ids :
        (on_press[w] = "None" /\ state[w].status = "Disabled") =>
            ~state[w].is_focused

\* C34: when an outer button is focused and a press lands on the enabled
\* button that is its content, the outer button is not focused after the
\* event and the inner button is.
C34_PressInnerBlursOuter ==
    \A w \in Ids :
        (content[w] # 0 /\ on_press[content[w]] = "Some"
            /\ state[w].is_focused) =>
            LET a == dispatch(state, "Press", content[w])
            IN  /\ ~a.tree[w].is_focused
                /\ a.tree[content[w]].is_focused

\* the tree states one focus_next task after a tree state of T: the walk
\* of FocusNext and the walk of FindFocused
next_trees(T) ==
    UNION {{operated(operated(t, focus_next(f, Len(Order))),
                     find_focused_op) : f \in Focused(t)} : t \in T}

\* the tree states at most k further FocusNext after a tree state of T
RECURSIVE after_nexts(_, _)
after_nexts(T, k) ==
    IF k = 0 THEN T ELSE after_nexts(T \cup next_trees(T), k - 1)

\* C35: if some button has on_press, consecutive FocusNext operations from
\* any reachable state focus a button with on_press after finitely many
\* steps: some run of at most 2 * n + 2 FocusNext does, n the number of
\* buttons.
C35_NextReachesEnabled ==
    (\E w \in Ids : on_press[w] = "Some") =>
        \E t \in after_nexts(next_trees({state}), 2 * Len(content) + 1) :
            \E w \in Ids : on_press[w] = "Some" /\ t[w].is_focused

own_event(w, s, ev, cur) ==
    LET rec == reconcile(w, s)
        own == handle(w, rec.s, ev, cur)
    IN  [s |-> own.s, status |-> own.status]

\* C37: the State of a button and what it returns for an event do not
\* depend on on_focus and on_blur: for two buttons of a tree with the same
\* on_press, whatever their on_focus and on_blur, every event in every State
\* with the cursor over both or over neither leaves the same is_focused,
\* was_focused and status and returns the same Captured or Ignored, and
\* every call of an operation leaves the same State.
C37_MessagesDoNotSteer ==
    \A w, v \in Ids :
        (w < v /\ on_press[w] = on_press[v]) =>
            \A s \in States :
                /\ \A ev \in Events : \A over \in BOOLEAN :
                      own_event(w, s, ev, IF over THEN w ELSE 0)
                          = own_event(v, s, ev, IF over THEN v ELSE 0)
                /\ \A c \in {"focus", "unfocus", "unfocus_focus", "none"} :
                      call(c, sync(w, s)) = call(c, sync(v, s))

\* two enabled buttons, one with and one without the messages, both with a
\* focus that is not published yet, lose it to a press outside them
C37_Witness ==
    \E w, v \in Ids :
        /\ w < v /\ on_press[w] = "Some" /\ on_press[v] = "Some"
        /\ on_focus[w] /\ on_blur[w] /\ ~on_focus[v] /\ ~on_blur[v]
        /\ state[w].is_focused /\ state[v].is_focused
        /\ state[w] = state[v]
        /\ LET a == dispatch(state, "Press", 0)
           IN  /\ a.tree[w] = a.tree[v]
               /\ ~a.tree[w].is_focused
               /\ a.returned[w] = a.returned[v]
               /\ Published(a.published, w) # {}
               /\ Published(a.published, v) = {}

\* the operations the runtime can run in the current state
AllOps == NextOps \cup PreviousOps \cup {find_focused_op}

\* C38: an operation never changes was_focused of a button; it can change
\* is_focused, and the status only between Disabled and another status.
C38_OperateFrame ==
    \A op \in AllOps :
        LET t == operated(state, op)
        IN  \A w \in Ids :
                /\ t[w].was_focused = state[w].was_focused
                /\ \/ t[w].status = state[w].status
                   \/ t[w].status = "Disabled"
                   \/ (state[w].status = "Disabled"
                          /\ t[w].status = "Active")

C38_Witness ==
    \E op \in NextOps : \E w \in Ids :
        LET t == operated(state, op)
        IN  /\ t[w].is_focused /\ ~state[w].is_focused
            /\ ~t[w].was_focused
            /\ state[w].status = "Disabled" /\ t[w].status = "Active"

\* C39: the status a button has after an operation is Disabled when it has
\* no on_press, whatever the status was; Active when it has on_press and
\* the status was Disabled; and the status it had in every other case.
C39_StatusSynchronised ==
    \A op \in AllOps :
        LET t == operated(state, op)
        IN  \A w \in Ids :
                t[w].status
                    = IF on_press[w] = "None" THEN "Disabled"
                      ELSE IF state[w].status = "Disabled" THEN "Active"
                      ELSE state[w].status

C39_Witness ==
    /\ \E w \in Ids :
          /\ on_press[w] = "None" /\ state[w].status = "Pressed"
          /\ operated(state, find_focused_op)[w].status = "Disabled"
    /\ \E w \in Ids :
          /\ on_press[w] = "Some" /\ state[w].status = "Pressed"
          /\ operated(state, find_focused_op)[w].status = "Pressed"

====
